---- MODULE Spec2Model ----
(***************************************************************************)
(* Image resolution and disk provisioning of vmup (src/vmup/disk.py).      *)
(*                                                                         *)
(* Python strings are modelled as sequences of tokens.  A token is a       *)
(* maximal run of word characters (W), a maximal run of decimal digits    *)
(* (D, kept digit by digit so that string order and integer order can be   *)
(* told apart) or one punctuation character (P).                           *)
(***************************************************************************)
EXTENDS Integers, Sequences, FiniteSets, TLC

VARIABLES
    backend,    \* "dir": images in a directory; "pool": in a libvirt pool
    store,      \* the artifacts of the backend, by name
    before,     \* the artifacts of the backend when the latest call began
    call,       \* the arguments of the latest call
    trace,      \* what the latest call did, in order
    result,     \* how the latest call ended
    ncalls,     \* calls made so far
    runs,       \* the creation commands run (made) and succeeded (ok) for
                \* the main disk in calls with overwrite false, since the
                \* last call with overwrite true
    partial     \* the latest fetch_image whose transfer failed and left an
                \* incomplete artifact: its alias and the artifact

vars ==
    <<backend, store, before, call, trace, result, ncalls, runs, partial>>

----------------------------------------------------------------------------
(* Bounds of the model *)

\* number of API calls in one behaviour
MaxCalls == 2
\* number of artifacts in the backend before the first call
MaxInit == 2
\* number of entries of a remote directory listing
MaxListing == 2

----------------------------------------------------------------------------
(* Strings *)

W(s) == [t |-> "w", s |-> s, d |-> <<>>]
D(d) == [t |-> "d", s |-> "", d |-> d]
P(s) == [t |-> "p", s |-> s, d |-> <<>>]

\* Python's None, kept apart from every string
None == <<[t |-> "none", s |-> "None", d |-> <<>>]>>

\* None where a list of strings is expected (the version argument)
NoVersion == <<None>>

Dash == P("-")
Dot == P(".")
Slash == P("/")

\* str.startswith for a one-character prefix
StartsWith(str, tok) == Len(str) > 0 /\ str[1] = tok

\* a string made only of decimal digits (str.isdigit)
IsDigit(str) == Len(str) = 1 /\ str[1].t = "d" /\ Len(str[1].d) > 0

\* the regular expression class \w+ : one run of word characters or digits
IsWord(tok) == tok.t \in {"w", "d"}

\* the regular expression atom . : any one character
IsAnyChar(tok) == tok.t = "p"

RECURSIVE IntOfDigits(_)
\* int() of a digit string
IntOfDigits(d) ==
    IF Len(d) = 0 THEN 0
    ELSE 10 * IntOfDigits(SubSeq(d, 1, Len(d) - 1)) + d[Len(d)]

int(str) == IntOfDigits(str[1].d)

RECURSIVE DigitsOfInt(_)
DigitsOfInt(n) ==
    IF n < 10 THEN <<n>> ELSE Append(DigitsOfInt(n \div 10), n % 10)

\* str() of a non-negative integer
StrOfInt(n) == <<D(DigitsOfInt(n))>>

RECURSIVE DigitsLess(_, _)
\* Python's < on two strings of digits: code point order, a proper prefix
\* being smaller
DigitsLess(a, b) ==
    IF Len(b) = 0 THEN FALSE
    ELSE IF Len(a) = 0 THEN TRUE
    ELSE IF a[1] # b[1] THEN a[1] < b[1]
    ELSE DigitsLess(Tail(a), Tail(b))

\* Python's < on the strings the name pattern captures as (\d+)
StrLess(a, b) == DigitsLess(a[1].d, b[1].d)

RECURSIVE SplitFrom(_, _, _)
SplitFrom(str, sep, cur) ==
    IF Len(str) = 0 THEN <<cur>>
    ELSE IF str[1] = sep THEN <<cur>> \o SplitFrom(Tail(str), sep, <<>>)
    ELSE SplitFrom(Tail(str), sep, Append(cur, str[1]))

\* str.split(sep)
Split(str, sep) == SplitFrom(str, sep, <<>>)

\* os.path.splitext(path)[1]: the suffix from the last dot of the last
\* path component, dot included; empty when there is none or the dot leads
\* the component
SplitExt(path) ==
    LET slashes == {i \in 1..Len(path) : path[i] = Slash}
        base == IF slashes = {} THEN 0
                ELSE CHOOSE i \in slashes : \A j \in slashes : j <= i
        dots == {i \in (base + 1)..Len(path) : path[i] = Dot}
        last == IF dots = {} THEN 0
                ELSE CHOOSE i \in dots : \A j \in dots : j <= i
    IN IF last > base + 1 THEN SubSeq(path, last, Len(path)) ELSE <<>>

\* os.path.join(dir, name) for a relative name
PathJoin(dir, name) == dir \o <<Slash>> \o name

----------------------------------------------------------------------------
(* Artifact names and the name pattern *)

\* \d{8} of NAME_RE_FORMAT
ComposeLen == 8

Compose1030 == <<2, 0, 1, 5, 1, 0, 3, 0>>
Compose1101 == <<2, 0, 1, 5, 1, 1, 0, 1>>

\* "Fedora-Cloud-<variant>-<rel>-<compose>.x86_64.<fmt>[.<comp>]"
ImgName(variant, rel, compose, fmt, comp) ==
    <<W("Fedora"), Dash, W("Cloud"), Dash, W(variant), Dash, D(rel), Dash,
      D(compose), Dot, W("x86_64"), Dot, W(fmt)>>
    \o (IF comp = "" THEN <<>> ELSE <<Dot, W(comp)>>)

Base9 == ImgName("Base", <<9>>, Compose1030, "qcow2", "")
Base10 == ImgName("Base", <<1, 0>>, Compose1030, "qcow2", "")
Base10New == ImgName("Base", <<1, 0>>, Compose1101, "qcow2", "")
Base10Raw == ImgName("Base", <<1, 0>>, Compose1030, "raw", "")
Base10Xz == ImgName("Base", <<1, 0>>, Compose1030, "qcow2", "xz")
Atomic10 == ImgName("Atomic", <<1, 0>>, Compose1030, "qcow2", "")
\* a file that matches no pattern
Notes == <<W("notes"), Dot, W("txt")>>
\* VM._main_disk_path: "<vm>-<disk>.<fmt>"
MainDisk == <<W("vm"), Dash, W("main"), Dot, W("qcow2")>>

ImageNames == {Base9, Base10, Base10New, Base10Raw, Base10Xz, Atomic10}
Names == ImageNames \cup {Notes, MainDisk}

\* a pattern that matches the images of every type
NAME_RE_match_any(image_type, name) ==
    /\ Len(name) \in {13, 15}
    /\ SubSeq(name, 1, 4) = <<W("Fedora"), Dash, W("Cloud"), Dash>>
    /\ IsWord(name[5])
    /\ name[6] = Dash
    /\ name[7].t = "d" /\ Len(name[7].d) >= 1
    /\ name[8] = Dash
    /\ name[9].t = "d" /\ Len(name[9].d) = ComposeLen
    /\ IsAnyChar(name[10])
    /\ name[11] = W("x86_64")
    /\ IsAnyChar(name[12])
    /\ IsWord(name[13])
    /\ Len(name) = 15 => (IsAnyChar(name[14]) /\ IsWord(name[15]))

\* NAME_RE.match(name) for the pattern of one image type:
\* ^Fedora-Cloud-{image_type}-(\d+)-(\d{8}).x86_64.(\w+)(.(\w+))?$
NAME_RE_match(image_type, name) ==
    /\ Len(name) \in {13, 15}
    /\ SubSeq(name, 1, 6)
         = <<W("Fedora"), Dash, W("Cloud"), Dash, W(image_type), Dash>>
    /\ name[7].t = "d" /\ Len(name[7].d) >= 1
    /\ name[8] = Dash
    /\ name[9].t = "d" /\ Len(name[9].d) = ComposeLen
    /\ IsAnyChar(name[10])
    /\ name[11] = W("x86_64")
    /\ IsAnyChar(name[12])
    /\ IsWord(name[13])
    /\ Len(name) = 15 => (IsAnyChar(name[14]) /\ IsWord(name[15]))

\* an ImageInfo that leaves the compression suffix out
ImageInfo_plain(name) ==
    [full_name |-> name,
     version |-> <<(<<name[7]>>), (<<name[9]>>)>>,
     fmt |-> <<name[13]>>,
     compression |-> None]

\* ImageInfo(f, (m.group(1), m.group(2)), m.group(3), m.group(5))
ImageInfo(name) ==
    [full_name |-> name,
     version |-> <<(<<name[7]>>), (<<name[9]>>)>>,
     fmt |-> <<name[13]>>,
     compression |-> IF Len(name) = 15 THEN <<name[15]>> ELSE None]

\* None where an ImageInfo is expected
NoImage ==
    [full_name |-> None, version |-> <<None, None>>, fmt |-> None,
     compression |-> None]

\* the generator of ImageInfo over a listing: the names the pattern matches,
\* in listing order
ParseListing(image_type, listing) ==
    LET Keep(n) == NAME_RE_match(image_type, n)
        kept == SelectSeq(listing, Keep)
    IN [i \in 1..Len(kept) |-> ImageInfo(kept[i])]

\* the key of the sort of find_local_image:
\* (version[0], version[1], compression is None), strings compared as strings
KeyLess(a, b) ==
    \/ StrLess(a.version[1], b.version[1])
    \/ /\ a.version[1] = b.version[1]
       /\ \/ StrLess(a.version[2], b.version[2])
          \/ /\ a.version[2] = b.version[2]
             /\ a.compression # None
             /\ b.compression = None

RECURSIVE InsertSorted(_, _)
\* x inserted after every element whose key is not greater (stable)
InsertSorted(sorted, x) ==
    IF Len(sorted) = 0 THEN <<x>>
    ELSE IF KeyLess(x, sorted[Len(sorted)])
         THEN Append(InsertSorted(SubSeq(sorted, 1, Len(sorted) - 1), x),
                     sorted[Len(sorted)])
         ELSE Append(sorted, x)

RECURSIVE SortedByKey(_)
\* sorted(res_imgs, key=...): ascending and stable
SortedByKey(seq) ==
    IF Len(seq) = 0 THEN <<>>
    ELSE InsertSorted(SortedByKey(SubSeq(seq, 1, Len(seq) - 1)), seq[Len(seq)])

\* a find_local_image that filters by release only, whatever compose date
\* the version carries
find_local_image_by_release(image_type, listing, version, fmt, compression) ==
    LET all_images == ParseListing(image_type, listing)
        ByFmt(i) == fmt # None => i.fmt = fmt
        ByCompression(i) == ~compression => i.compression = None
        ByVersion(i) == version # NoVersion => i.version[1] = version[1]
        Keep(i) == ByFmt(i) /\ ByCompression(i) /\ ByVersion(i)
        res_imgs == SortedByKey(SelectSeq(all_images, Keep))
    IN IF Len(res_imgs) = 0 THEN NoImage ELSE res_imgs[Len(res_imgs)]

\* a find_local_image that keeps compressed images whatever compression says
find_local_image_keeps(image_type, listing, version, fmt, compression) ==
    LET all_images == ParseListing(image_type, listing)
        ByFmt(i) == fmt # None => i.fmt = fmt
        ByVersion(i) ==
            version # NoVersion =>
                /\ i.version[1] = version[1]
                /\ Len(version) > 1 => i.version[2] = version[2]
        Keep(i) == ByFmt(i) /\ ByVersion(i)
        res_imgs == SortedByKey(SelectSeq(all_images, Keep))
    IN IF Len(res_imgs) = 0 THEN NoImage ELSE res_imgs[Len(res_imgs)]

\* FedoraImageFetcher.find_local_image on the listing of the backend;
\* version is None or a list of strings, fmt is None or a string
find_local_image(image_type, listing, version, fmt, compression) ==
    LET release == IF version # NoVersion THEN version[1] ELSE None
        compose == IF version # NoVersion /\ Len(version) > 1
                   THEN version[2] ELSE None
        all_images == ParseListing(image_type, listing)
        ByFmt(i) == fmt # None => i.fmt = fmt
        ByCompression(i) == ~compression => i.compression = None
        ByVersion(i) ==
            version # NoVersion =>
                /\ i.version[1] = release
                /\ compose # None => i.version[2] = compose
        Keep(i) == ByFmt(i) /\ ByCompression(i) /\ ByVersion(i)
        res_imgs == SortedByKey(SelectSeq(all_images, Keep))
    IN IF Len(res_imgs) = 0 THEN NoImage ELSE res_imgs[Len(res_imgs)]

----------------------------------------------------------------------------
(* The remote side: mirror list, release directories, image directories *)

FtpMirror == <<W("ftp"), P(":"), Slash, Slash, W("mirror"), Slash, W("pub")>>
HttpMirror == <<W("http"), P(":"), Slash, Slash, W("mirror"), Slash, W("pub")>>

\* every sequence without repetition of at most n elements of S
RECURSIVE SeqsUpTo(_, _)
SeqsUpTo(S, n) ==
    IF n = 0 THEN {<<>>}
    ELSE LET shorter == SeqsUpTo(S, n - 1)
         IN shorter \cup
            {Append(q, x) : <<q, x>> \in
                {<<q, x>> \in shorter \X S :
                    Len(q) = n - 1 /\ \A i \in 1..Len(q) : q[i] # x}}

\* the lines of the body of the mirror list response
MirrorBodies == SeqsUpTo({FtpMirror, HttpMirror, <<>>}, MaxListing)

\* the names of the mirror's root directory
ReleaseDirs ==
    {<<D(<<9>>)>>, <<D(<<1, 0>>)>>, <<W("test")>>, <<D(<<1, 1>>), W("_Beta")>>}
RootListings == SeqsUpTo(ReleaseDirs, MaxListing)

\* the files a mirror may hold in the image directory of one release
RemoteFiles(dir) ==
    {n \in ImageNames : <<n[7]>> = dir} \cup {Notes}

ImageListings(dir) == SeqsUpTo(RemoteFiles(dir), MaxListing)

\* a _get_mirror that takes the first mirror of the list, whatever its scheme
_get_mirror_first(body, proto) ==
    LET NonEmpty(r) == Len(r) > 0
        mirror_list == SelectSeq(body, NonEmpty)
    IN IF Len(mirror_list) = 0
       THEN [ok |-> FALSE, error |-> "NoMirrorAvailable", url |-> None]
       ELSE [ok |-> TRUE, error |-> "", url |-> mirror_list[1]]

\* FedoraImageFetcher._get_mirror: the first non-empty line that starts with
\* proto + "://"; next() raises StopIteration when there is none
_get_mirror(body, proto) ==
    LET NonEmpty(r) == Len(r) > 0
        mirror_list == SelectSeq(body, NonEmpty)
        Match(r) ==
            Len(r) >= 4 /\ SubSeq(r, 1, 4) = <<W(proto), P(":"), Slash, Slash>>
        hits == SelectSeq(mirror_list, Match)
    IN IF Len(hits) = 0
       THEN [ok |-> FALSE, error |-> "NoMirrorAvailable", url |-> None]
       ELSE [ok |-> TRUE, error |-> "", url |-> hits[1]]

\* a _get_latest_release that sorts the names made of digits as strings
_get_latest_release_lexical(releases) ==
    LET names == {releases[i] :
                     i \in {j \in 1..Len(releases) : IsDigit(releases[j])}}
    IN IF names = {} THEN -1
       ELSE int(CHOOSE m \in names : \A n \in names : ~StrLess(m, n))

\* FedoraImageFetcher._get_latest_release: the greatest of the int() of the
\* names made of digits; -1 stands for the IndexError on an empty list
_get_latest_release(releases) ==
    LET releases_nums == {int(releases[i]) :
                             i \in {j \in 1..Len(releases) : IsDigit(releases[j])}}
    IN IF releases_nums = {} THEN -1
       ELSE CHOOSE m \in releases_nums : \A n \in releases_nums : n <= m

\* FedoraImageFetcher.get_cloud_images.  release is None or a string; env
\* holds what the remote side answers: body (mirror list), root (listing of
\* the root directory), cwd_ok (whether the release directory can be
\* entered) and imgs (its listing)
get_cloud_images(image_type, release, env) ==
    LET mirror == _get_mirror(env.body, "ftp")
        latest == _get_latest_release(env.root)
        events1 == <<"mirrorlist">>
        events2 == events1 \o <<"ftp_login">>
                   \o (IF release = None THEN <<"nlst_root">> ELSE <<>>)
    IN IF ~mirror.ok
       THEN [ok |-> FALSE, error |-> mirror.error, events |-> events1,
             files |-> <<>>]
       ELSE IF release = None /\ latest < 0
       THEN [ok |-> FALSE, error |-> "NoReleases", events |-> events2,
             files |-> <<>>]
       ELSE IF ~env.cwd_ok
       THEN [ok |-> FALSE, error |-> "TransferFailed",
             events |-> events2 \o <<"cwd">>, files |-> <<>>]
       ELSE [ok |-> TRUE, error |-> "",
             events |-> events2 \o <<"cwd", "nlst_images">>,
             files |-> ParseListing(image_type, env.imgs)]

\* the release directory get_cloud_images enters
ReleaseDir(release, env) ==
    IF release # None THEN release
    ELSE IF _get_latest_release(env.root) < 0 THEN None
    ELSE StrOfInt(_get_latest_release(env.root))

\* a get_image that takes the last image of the format, not the first
get_image_last(image_type, version, env) ==
    LET release == IF version # NoVersion THEN version[1] ELSE None
        images == get_cloud_images(image_type, release, env)
        IsFmt(i) == i.fmt = <<W("qcow2")>>
        hits == SelectSeq(images.files, IsFmt)
    IN IF ~images.ok
       THEN [ok |-> FALSE, error |-> images.error, events |-> images.events,
             img |-> NoImage]
       ELSE IF Len(hits) = 0
       THEN [ok |-> FALSE, error |-> "ImageNotFound",
             events |-> images.events, img |-> NoImage]
       ELSE [ok |-> TRUE, error |-> "", events |-> images.events,
             img |-> hits[Len(hits)]]

\* FedoraImageFetcher.get_image(version, fmt='qcow2'): only version[0] is
\* used; the first image of the listing with that format
get_image(image_type, version, env) ==
    LET release == IF version # NoVersion THEN version[1] ELSE None
        images == get_cloud_images(image_type, release, env)
        IsFmt(i) == i.fmt = <<W("qcow2")>>
        hits == SelectSeq(images.files, IsFmt)
    IN IF ~images.ok
       THEN [ok |-> FALSE, error |-> images.error, events |-> images.events,
             img |-> NoImage]
       ELSE IF Len(hits) = 0
       THEN [ok |-> FALSE, error |-> "ImageNotFound",
             events |-> images.events, img |-> NoImage]
       ELSE [ok |-> TRUE, error |-> "", events |-> images.events,
             img |-> hits[1]]

----------------------------------------------------------------------------
(* The storage backend: a directory of files or a pool of volumes *)

\* os.getuid() and any other owner of a volume
Owners == {"uid", "root"}

Artifact(complete, owner, content) ==
    [complete |-> complete, owner |-> owner, content |-> content]

\* the image directory and the target path of the pool
ImgDir == <<Slash, W("images")>>
PoolTarget == <<Slash, W("pool")>>

\* every order in which the backend may list its artifacts
\* (os.listdir, pool.listVolumes)
Listings(st) ==
    {q \in SeqsUpTo(DOMAIN st, Cardinality(DOMAIN st)) :
        Len(q) = Cardinality(DOMAIN st)}

\* st with artifact n set to a
Put(st, n, a) ==
    [m \in DOMAIN st \cup {n} |-> IF m = n THEN a ELSE st[m]]

\* st without artifact n
Drop(st, n) == [m \in DOMAIN st \ {n} |-> st[m]]

\* a fetch that returns the name of the image, not where it was written
OutPath_bare(image, bk) == image

\* out_path of fetch: vol.path() in a pool, os.path.join(img_dir, image) in a
\* directory
OutPath(image, bk) ==
    IF bk = "pool" THEN PathJoin(PoolTarget, image)
    ELSE PathJoin(ImgDir, image)

\* a fetch that makes the empty volume before it looks the volume up, so a
\* failed lookup leaves the volume behind
fetch_creates_first(image, bk, st, env) ==
    LET exists == image \in DOMAIN st
        created == IF exists THEN st
                   ELSE Put(st, image, Artifact(FALSE, "uid", "image"))
        perms == created[image].owner = "uid"
        lookup == <<"vol_lookup">>
                  \o (IF exists THEN <<>> ELSE <<"vol_create">>)
        target == IF bk = "pool" THEN created ELSE st
        was == IF image \in DOMAIN target
               THEN target[image]
               ELSE Artifact(FALSE, "uid", "image")
        out_path == OutPath(image, bk)
    IN IF bk = "pool" /\ env.lookup_err
       THEN [ok |-> FALSE, error |-> "BackendError",
             events |-> <<"vol_lookup">>, path |-> None, store |-> created]
       ELSE IF bk = "pool" /\ ~perms
       THEN [ok |-> TRUE, error |-> "", events |-> lookup,
             path |-> out_path, store |-> created]
       ELSE IF env.wget_ok
       THEN [ok |-> TRUE, error |-> "",
             events |-> (IF bk = "pool" THEN lookup ELSE <<>>) \o <<"wget">>,
             path |-> out_path,
             store |-> Put(target, image,
                           Artifact(TRUE, was.owner, was.content))]
       ELSE [ok |-> FALSE, error |-> "TransferFailed",
             events |-> (IF bk = "pool" THEN lookup ELSE <<>>) \o <<"wget">>,
             path |-> None,
             store |-> Put(target, image, was)]

\* FedoraImageFetcher._init_img_vol and fetch.  env.lookup_err: the volume
\* lookup fails with an error other than VIR_ERR_NO_STORAGE_VOL; env.wget_ok:
\* wget exits with status 0.  wget --continue -O opens the output file before
\* it transfers, so a failed transfer leaves the file, incomplete unless it
\* was complete already.
fetch(image, bk, st, env) ==
    LET exists == image \in DOMAIN st
        created == IF exists THEN st
                   ELSE Put(st, image, Artifact(FALSE, "uid", "image"))
        perms == created[image].owner = "uid"
        lookup == <<"vol_lookup">>
                  \o (IF exists THEN <<>> ELSE <<"vol_create">>)
        target == IF bk = "pool" THEN created ELSE st
        was == IF image \in DOMAIN target
               THEN target[image]
               ELSE Artifact(FALSE, "uid", "image")
        out_path == OutPath(image, bk)
    IN IF bk = "pool" /\ env.lookup_err
       THEN [ok |-> FALSE, error |-> "BackendError",
             events |-> <<"vol_lookup">>, path |-> None, store |-> st]
       ELSE IF bk = "pool" /\ ~perms
       THEN [ok |-> TRUE, error |-> "", events |-> lookup,
             path |-> out_path, store |-> created]
       ELSE IF env.wget_ok
       THEN [ok |-> TRUE, error |-> "",
             events |-> (IF bk = "pool" THEN lookup ELSE <<>>) \o <<"wget">>,
             path |-> out_path,
             store |-> Put(target, image,
                           Artifact(TRUE, was.owner, was.content))]
       ELSE [ok |-> FALSE, error |-> "TransferFailed",
             events |-> (IF bk = "pool" THEN lookup ELSE <<>>) \o <<"wget">>,
             path |-> None,
             store |-> Put(target, image, was)]

\* _IMAGE_FETCHERS: the image type of the fetcher registered under each key
_IMAGE_FETCHERS ==
    (<<W("fedora")>> :> "Base")
    @@ (<<W("fedora"), Dash, W("atomic")>> :> "Atomic")

\* a registry that gives an unknown image type the Base fetcher
Fetcher_fallback(image_type) ==
    IF image_type \in DOMAIN _IMAGE_FETCHERS THEN _IMAGE_FETCHERS[image_type]
    ELSE "Base"

\* _IMAGE_FETCHERS.get(image_type, None)
Fetcher(image_type) ==
    IF image_type \in DOMAIN _IMAGE_FETCHERS THEN _IMAGE_FETCHERS[image_type]
    ELSE "none"

\* parts = name.split('-'); image_type = parts[0]; version = parts[1:]
AliasType(name) == Split(name, Dash)[1]
AliasVersion(name) ==
    LET parts == Split(name, Dash)
    IN IF Len(parts) > 1 THEN Tail(parts) ELSE NoVersion

Outcome(kind, error, fmt, location, fetcher, img) ==
    [kind |-> kind, error |-> error, fmt |-> fmt, location |-> location,
     fetcher |-> fetcher, img |-> img, diag |-> None, files |-> <<>>]

\* fetch_image(name, img_dir, pool, check_local): the events of the
\* invocation in order, its outcome and the backend after it.  found is what
\* fetcher.find_local_image returned and remote how fetcher.get_image ended.
fetch_image(name, check_local, bk, st, found, remote, env) ==
    LET image_type == AliasType(name)
        fetcher == Fetcher(image_type)
        known == fetcher # "none"
        local == IF check_local THEN found ELSE NoImage
        scan == IF check_local THEN <<"list">> ELSE <<>>
        got == fetch(remote.img.full_name, bk, st, env)
    IN IF StartsWith(name, Slash)
       THEN [events |-> <<>>, store |-> st,
             result |-> Outcome("Resolved", "", SplitExt(name), name, "none",
                                NoImage)]
       ELSE IF ~known
       THEN [events |-> <<>>, store |-> st,
             result |-> Outcome("Failed", "UnknownAlias", None, None, "none",
                                NoImage)]
       ELSE IF local # NoImage /\ local.compression # None
       THEN [events |-> scan, store |-> st,
             result |-> Outcome("Failed", "UnsupportedCompression", None,
                                None, fetcher, local)]
       ELSE IF local # NoImage
       THEN [events |-> scan, store |-> st,
             result |-> Outcome("Resolved", "", local.fmt,
                                IF bk = "pool" THEN local.full_name
                                ELSE PathJoin(ImgDir, local.full_name),
                                fetcher, local)]
       ELSE IF ~remote.ok
       THEN [events |-> scan \o remote.events, store |-> st,
             result |-> Outcome("Failed", remote.error, None, None, fetcher,
                                NoImage)]
       ELSE IF remote.img.compression # None
       THEN [events |-> scan \o remote.events, store |-> st,
             result |-> Outcome("Failed", "UnsupportedCompression", None,
                                None, fetcher, remote.img)]
       ELSE IF ~got.ok
       THEN [events |-> scan \o remote.events \o got.events,
             store |-> got.store,
             result |-> Outcome("Failed", got.error, None, None, fetcher,
                                remote.img)]
       ELSE [events |-> scan \o remote.events \o got.events,
             store |-> got.store,
             result |-> Outcome("Resolved", "", remote.img.fmt, got.path,
                                fetcher, remote.img)]

----------------------------------------------------------------------------
(* Disk provisioning *)

\* what a creation request asks for: size and backing file
Contents == {"10G", "20G"}

\* what a failing qemu-img create writes to its standard error
Diagnostic == <<W("qemu-img: Invalid image size specified")>>

\* subprocess.check_call(command, stdout=PIPE, stderr=PIPE): the exception of
\* a non-zero exit status is CalledProcessError(retcode, cmd), whose output
\* and stderr are None, the pipes being never read
check_call(ok, stderr) == [raised |-> ~ok, stderr |-> None]

\* a make_disk_file that recreates an existing file whatever overwrite says
make_disk_file_recreates(path, content, overwrite, st, env) ==
    LET exists == path \in DOMAIN st
        removed == IF exists THEN Drop(st, path) ELSE st
        events == <<"exists">> \o (IF exists THEN <<"remove">> ELSE <<>>)
                  \o <<"create">>
    IN IF env.create_ok
       THEN [events |-> events,
             store |-> Put(removed, path, Artifact(TRUE, "uid", content)),
             result |-> Outcome("Returned", "", None, None, "none", NoImage)]
       ELSE [events |-> events, store |-> removed,
             result |-> Outcome("Failed", "DiskCreationFailed", None, None,
                                "none", NoImage)]

\* a make_disk_file that puts the deleted file back when the creation fails
make_disk_file_restores(path, content, overwrite, st, env) ==
    LET exists == path \in DOMAIN st
        removed == IF exists THEN Drop(st, path) ELSE st
        events == <<"exists">> \o (IF exists THEN <<"remove">> ELSE <<>>)
                  \o <<"create">>
    IN IF exists /\ ~overwrite
       THEN [events |-> <<"exists">>, store |-> st,
             result |-> Outcome("Returned", "", None, None, "none", NoImage)]
       ELSE IF env.create_ok
       THEN [events |-> events,
             store |-> Put(removed, path, Artifact(TRUE, "uid", content)),
             result |-> Outcome("Returned", "", None, None, "none", NoImage)]
       ELSE [events |-> events, store |-> st,
             result |-> [Outcome("Failed", "DiskCreationFailed", None, None,
                                 "none", NoImage)
                         EXCEPT !.diag = check_call(FALSE, env.stderr).stderr]]

\* make_disk_file(path, size, backing_file, fmt, overwrite).  env.create_ok:
\* qemu-img create exits with status 0; a failed creation leaves no file.
make_disk_file(path, content, overwrite, st, env) ==
    LET exists == path \in DOMAIN st
        removed == IF exists THEN Drop(st, path) ELSE st
        events == <<"exists">> \o (IF exists THEN <<"remove">> ELSE <<>>)
                  \o <<"create">>
    IN IF exists /\ ~overwrite
       THEN [events |-> <<"exists">>, store |-> st,
             result |-> Outcome("Returned", "", None, None, "none", NoImage)]
       ELSE IF env.create_ok
       THEN [events |-> events,
             store |-> Put(removed, path, Artifact(TRUE, "uid", content)),
             result |-> Outcome("Returned", "", None, None, "none", NoImage)]
       ELSE [events |-> events, store |-> removed,
             result |-> [Outcome("Failed", "DiskCreationFailed", None, None,
                                 "none", NoImage)
                         EXCEPT !.diag = check_call(FALSE, env.stderr).stderr]]

\* a make_disk_volume that creates the volume over the existing one, without
\* deleting it first
make_disk_volume_keeps(name, content, overwrite, st, env) ==
    LET exists == name \in DOMAIN st
    IN IF env.lookup_err
       THEN [events |-> <<"vol_lookup">>, store |-> st,
             result |-> Outcome("Failed", "BackendError", None, None, "none",
                                NoImage)]
       ELSE IF exists /\ ~overwrite
       THEN [events |-> <<"vol_lookup">>, store |-> st,
             result |-> Outcome("Returned", "", None, None, "none", NoImage)]
       ELSE IF env.create_ok
       THEN [events |-> <<"vol_lookup", "create">>,
             store |-> Put(st, name, Artifact(TRUE, "root", content)),
             result |-> Outcome("Returned", "", None, None, "none", NoImage)]
       ELSE [events |-> <<"vol_lookup", "create">>, store |-> st,
             result |-> Outcome("Failed", "BackendError", None, None, "none",
                                NoImage)]

\* a make_disk_volume that takes every error of the lookup for "no such
\* volume" and goes on to create
make_disk_volume_swallows(name, content, overwrite, st, env) ==
    LET exists == name \in DOMAIN st /\ ~env.lookup_err
        removed == IF exists THEN Drop(st, name) ELSE st
        events == <<"vol_lookup">>
                  \o (IF exists THEN <<"remove">> ELSE <<>>) \o <<"create">>
    IN IF exists /\ ~overwrite
       THEN [events |-> <<"vol_lookup">>, store |-> st,
             result |-> Outcome("Returned", "", None, None, "none", NoImage)]
       ELSE IF env.create_ok
       THEN [events |-> events,
             store |-> Put(removed, name, Artifact(TRUE, "root", content)),
             result |-> Outcome("Returned", "", None, None, "none", NoImage)]
       ELSE [events |-> events, store |-> removed,
             result |-> Outcome("Failed", "BackendError", None, None, "none",
                                NoImage)]

\* make_disk_volume(pool, name, size, fmt, backing_file, overwrite).
\* env.lookup_err: the lookup fails with an error other than
\* VIR_ERR_NO_STORAGE_VOL; env.create_ok: pool.createXML succeeds.  The
\* volume is created without an owner, so the pool gives it its own.
make_disk_volume(name, content, overwrite, st, env) ==
    LET exists == name \in DOMAIN st
        removed == IF exists THEN Drop(st, name) ELSE st
        events == <<"vol_lookup">>
                  \o (IF exists THEN <<"remove">> ELSE <<>>) \o <<"create">>
    IN IF env.lookup_err
       THEN [events |-> <<"vol_lookup">>, store |-> st,
             result |-> Outcome("Failed", "BackendError", None, None, "none",
                                NoImage)]
       ELSE IF exists /\ ~overwrite
       THEN [events |-> <<"vol_lookup">>, store |-> st,
             result |-> Outcome("Returned", "", None, None, "none", NoImage)]
       ELSE IF env.create_ok
       THEN [events |-> events,
             store |-> Put(removed, name, Artifact(TRUE, "root", content)),
             result |-> Outcome("Returned", "", None, None, "none", NoImage)]
       ELSE [events |-> events, store |-> removed,
             result |-> Outcome("Failed", "BackendError", None, None, "none",
                                NoImage)]

\* the overwrite argument of a call: given as True, given as False, or left
\* to the default of the function
OverwriteArgs == {"True", "False", "default"}

\* the default of make_disk_file and of VM.provision_disk
FileOverwrite(arg) == arg = "True"

\* the default of make_disk_volume
VolumeOverwrite(arg) == arg # "False"

----------------------------------------------------------------------------
(* The state machine *)

Aliases ==
    {<<W("fedora")>>,
     <<W("fedora"), Dash, D(<<1, 0>>)>>,
     <<W("fedora"), Dash, D(<<1, 0>>), Dash, D(Compose1030)>>,
     <<W("fedora"), Dash, W("atomic")>>,
     <<W("fedora"), Dash, W("atomic"), Dash, D(<<1, 0>>)>>,
     <<W("ubuntu"), Dash, D(<<1, 4>>)>>,
     <<W("fedora"), D(<<1, 0>>)>>,
     <<Slash, W("var"), Slash, W("images"), Slash, W("custom"), Dot,
       W("qcow2")>>}

\* the artifacts a backend may hold before the first call
InitNames == {Base10, Base10New, Base10Xz, Atomic10, Notes, MainDisk}

NoCall ==
    [op |-> "none", name |-> None, check_local |-> FALSE,
     overwrite |-> "default", content |-> "", image_type |-> "none",
     listing |-> <<>>, version |-> NoVersion, fmt |-> None,
     compression |-> FALSE, stderr |-> None, lookup_err |-> FALSE]

NoEnv ==
    [body |-> <<>>, root |-> <<>>, cwd_ok |-> TRUE, imgs |-> <<>>,
     lookup_err |-> FALSE, wget_ok |-> TRUE, create_ok |-> TRUE,
     stderr |-> None]

NoOutcome == Outcome("none", "", None, None, "none", NoImage)

NoPartial == [alias |-> None, image |-> None]

\* the backends a run may find: artifacts left by earlier runs, all of them
\* whole; in a pool an image volume belongs to this user or to another
InitStores(bk, names, n) ==
    {st \in UNION {[S -> {Artifact(TRUE, o, c) :
                            o \in Owners, c \in {"image", "10G"}}] :
                      S \in {T \in SUBSET names : Cardinality(T) <= n}} :
        \A m \in DOMAIN st :
            /\ (bk = "dir" \/ m \notin ImageNames) => st[m].owner = "uid"
            /\ st[m].content = IF m = MainDisk THEN "10G" ELSE "image"}

Init ==
    /\ backend \in {"dir", "pool"}
    /\ store \in InitStores(backend, InitNames, MaxInit)
    /\ before = store
    /\ call = NoCall
    /\ trace = <<>>
    /\ result = NoOutcome
    /\ ncalls = 0
    /\ runs = [made |-> 0, ok |-> 0]
    /\ partial = NoPartial

\* the failed transfer remembered after a call: wget exited with an error and
\* the file or volume it wrote to is there, incomplete
PartialAfter(c, r) ==
    IF /\ c.op = "fetch_image"
       /\ r.result.error = "TransferFailed"
       /\ r.result.img.full_name \in DOMAIN r.store
       /\ ~r.store[r.result.img.full_name].complete
    THEN [alias |-> c.name, image |-> r.result.img.full_name]
    ELSE partial

\* a call is made by the script only after the one before it has returned
Idle == call.op = "none"

Finish(c, r, newruns) ==
    /\ call' = c
    /\ trace' = r.events
    /\ result' = r.result
    /\ store' = r.store
    /\ before' = store
    /\ ncalls' = ncalls + 1
    /\ runs' = newruns
    /\ partial' = PartialAfter(c, r)
    /\ UNCHANGED backend

\* one element of S for each value F takes on S
OnePer(S, F(_)) == {CHOOSE x \in S : F(x) = v : v \in {F(y) : y \in S}}

\* what the remote side may answer to one get_image: the mirror list, the
\* root listing (read only without a release), whether the release directory
\* can be entered, and its listing.  get_image reads the mirror list only
\* through _get_mirror, the root listing only through _get_latest_release and
\* the image listing only through the name pattern, so one answer stands for
\* all the answers these take to the same value.
RemoteEnvs(image_type, version) ==
    LET Mirror(b) == _get_mirror(b, "ftp")
        Latest(r) == _get_latest_release(r)
        Files(l) == ParseListing(image_type, l)
        roots == IF version = NoVersion THEN OnePer(RootListings, Latest)
                 ELSE {<<>>}
        ImgsOf(root) ==
            LET dir == ReleaseDir(IF version # NoVersion THEN version[1]
                                  ELSE None,
                                  [NoEnv EXCEPT !.root = root])
            IN IF dir = None THEN {<<>>}
               ELSE OnePer(ImageListings(dir), Files)
    IN UNION {
        {[NoEnv EXCEPT !.body = e[1], !.root = e[2], !.cwd_ok = e[3],
                       !.imgs = imgs] : imgs \in ImgsOf(e[2])} :
        e \in OnePer(MirrorBodies, Mirror) \X roots \X BOOLEAN}

\* the fetcher and version of every alias fetch_image resolves
RemoteKeys ==
    {<<Fetcher(AliasType(a)), AliasVersion(a)>> :
        a \in {b \in Aliases : /\ ~StartsWith(b, Slash)
                               /\ Fetcher(AliasType(b)) # "none"}}

\* every way get_image may end, by fetcher and version
GetImageOutcomes ==
    UNION {{<<k, get_image(k[1], k[2], env)>> : env \in RemoteEnvs(k[1], k[2])} :
              k \in RemoteKeys}

\* one invocation of fetch_image, with everything the backend and the remote
\* side may answer
FetchImage ==
    /\ Idle
    /\ ncalls < MaxCalls
    /\ \E name \in Aliases, check_local \in BOOLEAN :
         LET fetcher == Fetcher(AliasType(name))
             known == ~StartsWith(name, Slash) /\ fetcher # "none"
             version == AliasVersion(name)
             c == [NoCall EXCEPT !.op = "fetch_image", !.name = name,
                                 !.check_local = check_local]
         IN \E found \in IF known /\ check_local
                         THEN {find_local_image(fetcher, listing, version,
                                                None, FALSE) :
                                  listing \in Listings(store)}
                         ELSE {NoImage} :
              LET miss == known /\ found = NoImage
              IN \E remote \in IF miss
                               THEN {p[2] : p \in {q \in GetImageOutcomes :
                                        q[1] = <<fetcher, version>>}}
                               ELSE {get_image("none", NoVersion, NoEnv)} :
                   LET transfer == /\ miss
                                   /\ remote.ok
                                   /\ remote.img.compression = None
                   IN \E lookup_err \in IF transfer /\ backend = "pool"
                                        THEN BOOLEAN ELSE {FALSE},
                         wget_ok \in IF transfer THEN BOOLEAN ELSE {TRUE} :
                        Finish([c EXCEPT !.lookup_err = lookup_err],
                               fetch_image(name, check_local, backend, store,
                                   found, remote,
                                   [NoEnv EXCEPT !.lookup_err = lookup_err,
                                                 !.wget_ok = wget_ok]),
                               runs)

\* the creation commands counted in runs after a provisioning call
RunsAfter(overwrite, r) ==
    IF overwrite THEN [made |-> 0, ok |-> 0]
    ELSE IF \E i \in 1..Len(r.events) : r.events[i] = "create"
    THEN [made |-> runs.made + 1,
          ok |-> runs.ok + (IF r.result.kind = "Returned" THEN 1 ELSE 0)]
    ELSE runs

\* VM.provision_disk: make_disk_file on the main disk of the machine
ProvisionDisk ==
    /\ Idle
    /\ ncalls < MaxCalls
    /\ backend = "dir"
    /\ \E arg \in OverwriteArgs, content \in Contents, create_ok \in BOOLEAN :
         LET stderr == IF create_ok THEN None ELSE Diagnostic
             r == make_disk_file(MainDisk, content, FileOverwrite(arg), store,
                                 [NoEnv EXCEPT !.create_ok = create_ok,
                                               !.stderr = stderr])
         IN Finish([NoCall EXCEPT !.op = "provision_disk", !.name = MainDisk,
                                  !.overwrite = arg, !.content = content,
                                  !.stderr = stderr],
                   r, RunsAfter(FileOverwrite(arg), r))

\* make_disk_volume on the main disk of the machine
MakeDiskVolume ==
    /\ Idle
    /\ ncalls < MaxCalls
    /\ backend = "pool"
    /\ \E arg \in OverwriteArgs, content \in Contents, create_ok \in BOOLEAN,
          lookup_err \in BOOLEAN :
         LET r == make_disk_volume(MainDisk, content, VolumeOverwrite(arg),
                                   store,
                                   [NoEnv EXCEPT !.create_ok = create_ok,
                                                 !.lookup_err = lookup_err])
         IN Finish([NoCall EXCEPT !.op = "make_disk_volume",
                                  !.name = MainDisk, !.overwrite = arg,
                                  !.content = content,
                                  !.lookup_err = lookup_err],
                   r, RunsAfter(VolumeOverwrite(arg), r))

\* the call has returned and the script goes on
Return ==
    /\ ~Idle
    /\ call' = NoCall
    /\ trace' = <<>>
    /\ result' = NoOutcome
    /\ before' = store
    /\ UNCHANGED <<backend, store, ncalls, runs, partial>>

Next == FetchImage \/ ProvisionDisk \/ MakeDiskVolume \/ Return

Spec == Init /\ [][Next]_vars

----------------------------------------------------------------------------
(* The selector on its own: find_local_image called with any arguments *)

\* the version arguments tried
Versions ==
    {NoVersion,
     <<(<<D(<<9>>)>>)>>,
     <<(<<D(<<1, 0>>)>>)>>,
     <<(<<D(<<1, 0>>)>>), (<<D(Compose1030)>>)>>,
     <<(<<D(<<1, 0>>)>>), (<<D(Compose1101)>>)>>}

\* the fmt arguments tried
Formats == {None, <<W("qcow2")>>, <<W("raw")>>}

\* the fetchers registered in _IMAGE_FETCHERS
Fetchers == {_IMAGE_FETCHERS[k] : k \in DOMAIN _IMAGE_FETCHERS}

SelInit ==
    /\ backend \in {"dir", "pool"}
    /\ store \in InitStores("dir", Names, MaxInit)
    /\ before = store
    /\ call = NoCall
    /\ trace = <<>>
    /\ result = NoOutcome
    /\ ncalls = 0
    /\ runs = [made |-> 0, ok |-> 0]
    /\ partial = NoPartial

\* fetcher.find_local_image(img_dir, pool, version, fmt, compression)
FindLocalImage ==
    \E image_type \in Fetchers, listing \in Listings(store),
       version \in Versions, fmt \in Formats, compression \in BOOLEAN :
        /\ Idle
        /\ call' = [NoCall EXCEPT !.op = "find_local_image",
                                  !.image_type = image_type,
                                  !.listing = listing, !.version = version,
                                  !.fmt = fmt, !.compression = compression]
        /\ trace' = <<"list">>
        /\ result' = Outcome("Returned", "", None, None, image_type,
                             find_local_image(image_type, listing, version,
                                              fmt, compression))
        /\ before' = store
        /\ UNCHANGED <<backend, store, ncalls, runs, partial>>

\* the proto arguments tried
Protos == {"ftp", "http"}

\* fetcher._get_mirror(proto) with any body of the mirror list response
GetMirror ==
    \E body \in MirrorBodies, proto \in Protos :
        LET mirror == _get_mirror(body, proto)
        IN /\ Idle
           /\ call' = [NoCall EXCEPT !.op = "_get_mirror",
                                     !.name = <<W(proto)>>,
                                     !.listing = body]
           /\ trace' = <<"mirrorlist">>
           /\ result' = Outcome(IF mirror.ok THEN "Returned" ELSE "Failed",
                                mirror.error, None, mirror.url, "none",
                                NoImage)
           /\ before' = store
           /\ UNCHANGED <<backend, store, ncalls, runs, partial>>

\* one call of _get_latest_release on a listing of the root directory of the
\* mirror; the IndexError of an empty list of numbers is the failure
GetLatestRelease ==
    \E releases \in RootListings :
        LET latest == _get_latest_release(releases)
        IN /\ Idle
           /\ call' = [NoCall EXCEPT !.op = "_get_latest_release",
                                     !.listing = releases]
           /\ trace' = <<>>
           /\ result' = IF latest < 0
                        THEN Outcome("Failed", "NoReleases", None, None,
                                     "none", NoImage)
                        ELSE Outcome("Returned", "", None, StrOfInt(latest),
                                     "none", NoImage)
           /\ before' = store
           /\ UNCHANGED <<backend, store, ncalls, runs, partial>>

SelNext == FindLocalImage \/ GetMirror \/ GetLatestRelease

SelSpec == SelInit /\ [][SelNext]_vars

----------------------------------------------------------------------------
(* fetch_image with the answers of the remote side in view *)

\* the artifacts a backend may hold before the call
RemoteInitNames == {Base10, Notes}

RemoteInit ==
    /\ backend \in {"dir", "pool"}
    /\ store \in InitStores(backend, RemoteInitNames, MaxInit - 1)
    /\ before = store
    /\ call = NoCall
    /\ trace = <<>>
    /\ result = NoOutcome
    /\ ncalls = 0
    /\ runs = [made |-> 0, ok |-> 0]
    /\ partial = NoPartial

\* what the remote side may answer to one get_image, with every listing of
\* the release directory
ListingEnvs(image_type, version) ==
    LET Mirror(b) == _get_mirror(b, "ftp")
        Latest(r) == _get_latest_release(r)
        roots == IF version = NoVersion THEN OnePer(RootListings, Latest)
                 ELSE {<<>>}
        ImgsOf(root) ==
            LET dir == ReleaseDir(IF version # NoVersion THEN version[1]
                                  ELSE None,
                                  [NoEnv EXCEPT !.root = root])
            IN IF dir = None THEN {<<>>} ELSE ImageListings(dir)
    IN UNION {
        {[NoEnv EXCEPT !.body = e[1], !.root = e[2], !.cwd_ok = e[3],
                       !.imgs = imgs] : imgs \in ImgsOf(e[2])} :
        e \in OnePer(MirrorBodies, Mirror) \X roots \X BOOLEAN}

\* one invocation of fetch_image for an alias with a fetcher; the listing of
\* the release directory is kept in the call
FetchImageFrom ==
    /\ Idle
    /\ \E name \in {a \in Aliases : /\ ~StartsWith(a, Slash)
                                    /\ Fetcher(AliasType(a)) # "none"},
          check_local \in BOOLEAN :
         LET fetcher == Fetcher(AliasType(name))
             version == AliasVersion(name)
         IN \E listing \in Listings(store),
               env \in ListingEnvs(fetcher, version),
               lookup_err \in BOOLEAN, wget_ok \in BOOLEAN :
              Finish([NoCall EXCEPT !.op = "fetch_image", !.name = name,
                                    !.check_local = check_local,
                                    !.listing = env.imgs,
                                    !.lookup_err = lookup_err],
                     fetch_image(name, check_local, backend, store,
                         IF check_local
                         THEN find_local_image(fetcher, listing, version,
                                               None, FALSE)
                         ELSE NoImage,
                         get_image(fetcher, version, env),
                         [NoEnv EXCEPT !.lookup_err = lookup_err,
                                       !.wget_ok = wget_ok]),
                     runs)

RemoteNext == FetchImageFrom

RemoteSpec == RemoteInit /\ [][RemoteNext]_vars

----------------------------------------------------------------------------
(* The listings of a fetcher: find_local_images and get_cloud_images *)

\* the longest listing in which images of both types and other files mix
MaxMixed == MaxInit + 1

\* the files a backend or a release directory may hold when it is listed
MixedNames == {Base10, Base10Xz, Atomic10, Notes}

ListInit ==
    /\ backend \in {"dir", "pool"}
    /\ store \in InitStores("dir", MixedNames, MaxMixed)
    /\ before = store
    /\ call = NoCall
    /\ trace = <<>>
    /\ result = NoOutcome
    /\ ncalls = 0
    /\ runs = [made |-> 0, ok |-> 0]
    /\ partial = NoPartial

\* fetcher.find_local_images(img_dir, pool)
FindLocalImages ==
    \E image_type \in Fetchers, listing \in Listings(store) :
        /\ Idle
        /\ call' = [NoCall EXCEPT !.op = "find_local_images",
                                  !.image_type = image_type,
                                  !.listing = listing]
        /\ trace' = <<"list">>
        /\ result' = [Outcome("Returned", "", None, None, image_type, NoImage)
                      EXCEPT !.files = ParseListing(image_type, listing)]
        /\ before' = store
        /\ UNCHANGED <<backend, store, ncalls, runs, partial>>

\* what the remote side may answer to get_cloud_images, with every listing
\* of up to MaxMixed names of the release directory
MixedEnvs(release) ==
    LET Mirror(b) == _get_mirror(b, "ftp")
        Latest(r) == _get_latest_release(r)
        roots == IF release = None THEN OnePer(RootListings, Latest)
                 ELSE {<<>>}
        ImgsOf(root) ==
            LET dir == ReleaseDir(release, [NoEnv EXCEPT !.root = root])
            IN IF dir = None THEN {<<>>}
               ELSE SeqsUpTo(RemoteFiles(dir) \cap MixedNames, MaxMixed)
    IN UNION {
        {[NoEnv EXCEPT !.body = e[1], !.root = e[2], !.cwd_ok = e[3],
                       !.imgs = imgs] : imgs \in ImgsOf(e[2])} :
        e \in OnePer(MirrorBodies, Mirror) \X roots \X BOOLEAN}

\* fetcher.get_cloud_images(release)
GetCloudImages ==
    \E image_type \in Fetchers, release \in {None, <<D(<<1, 0>>)>>} :
        \E env \in MixedEnvs(release) :
            LET images == get_cloud_images(image_type, release, env)
            IN /\ Idle
               /\ call' = [NoCall EXCEPT !.op = "get_cloud_images",
                                         !.image_type = image_type,
                                         !.version = <<release>>,
                                         !.listing = env.imgs]
               /\ trace' = images.events
               /\ result' = [Outcome(IF images.ok THEN "Returned"
                                     ELSE "Failed",
                                     images.error, None, None, image_type,
                                     NoImage)
                             EXCEPT !.files = images.files]
               /\ before' = store
               /\ UNCHANGED <<backend, store, ncalls, runs, partial>>

ListNext == FindLocalImages \/ GetCloudImages

ListSpec == ListInit /\ [][ListNext]_vars

----------------------------------------------------------------------------
(* Vocabulary of the properties *)

Has(tr, e) == \E i \in 1..Len(tr) : tr[i] = e

Count(tr, e) == Cardinality({i \in 1..Len(tr) : tr[i] = e})

\* the events that reach the mirror list, the mirror or the download server
NetworkEvents ==
    {"mirrorlist", "ftp_login", "nlst_root", "cwd", "nlst_images", "wget"}

NoNetwork(tr) == \A i \in 1..Len(tr) : tr[i] \notin NetworkEvents

IsFetch == call.op = "fetch_image"

IsSelect == call.op = "find_local_image"

IsDisk == call.op \in {"provision_disk", "make_disk_volume"}

\* the variant keys of the specification and the strategy of each
BaseKey == <<W("fedora")>>
AtomicKey == <<W("fedora"), Dash, W("atomic")>>

\* the alias is the key, alone or followed by a version suffix
HasKey(name, key) ==
    /\ Len(name) >= Len(key)
    /\ SubSeq(name, 1, Len(key)) = key
    /\ Len(name) > Len(key) => name[Len(key) + 1] = Dash

\* the strategy the specification gives an alias
Variant(name) ==
    IF HasKey(name, AtomicKey) THEN "Atomic"
    ELSE IF HasKey(name, BaseKey) THEN "Base"
    ELSE "none"

\* the version hint of an alias: the segments after its variant key
Hint(name) ==
    LET key == IF HasKey(name, AtomicKey) THEN AtomicKey ELSE BaseKey
    IN IF Len(name) = Len(key) THEN NoVersion
       ELSE Split(SubSeq(name, Len(key) + 2, Len(name)), Dash)

\* artifact n matches the grammar of the variant and the version hint
MatchesHint(n, variant, hint) ==
    /\ NAME_RE_match(variant, n)
    /\ hint # NoVersion =>
         /\ ImageInfo(n).version[1] = hint[1]
         /\ Len(hint) > 1 => ImageInfo(n).version[2] = hint[2]

\* the artifacts of st that match the alias
Matching(st, name) ==
    {n \in DOMAIN st : MatchesHint(n, Variant(name), Hint(name))}

Compressed(n) == ImageInfo(n).compression # None

\* the location of artifact n in the backend
Locations(n) ==
    IF backend = "pool" THEN {n, PathJoin(PoolTarget, n)}
    ELSE {PathJoin(ImgDir, n)}

Release9 == <<D(<<9>>)>>
Release10 == <<D(<<1, 0>>)>>

\* the records of the latest find_local_image call that pass its filters:
\* format, compression, version hint
Candidates ==
    LET all == ParseListing(call.image_type, call.listing)
    IN {c \in {all[i] : i \in 1..Len(all)} :
          /\ call.fmt # None => c.fmt = call.fmt
          /\ ~call.compression => c.compression = None
          /\ call.version # NoVersion =>
               /\ c.version[1] = call.version[1]
               /\ Len(call.version) > 1 => c.version[2] = call.version[2]}

----------------------------------------------------------------------------
(* The properties *)

\* C1: when the candidates that pass the filters of find_local_image hold a
\* record of release "9" and a record of release "10", the record returned
\* has release "10".
C1_SelectorRanksNumerically ==
    (/\ IsSelect
     /\ \E c \in Candidates : c.version[1] = Release9
     /\ \E c \in Candidates : c.version[1] = Release10)
    => result.img.version[1] = Release10

\* C2: fetch_image with check_local, when the backend holds artifacts that
\* match the alias and all of them are compressed, fails with
\* UnsupportedCompression and reaches neither the mirror nor the download
\* server.
C2_CompressedLocalIsHardFailure ==
    (/\ IsFetch
     /\ call.check_local
     /\ Variant(call.name) # "none"
     /\ Matching(before, call.name) # {}
     /\ \A n \in Matching(before, call.name) : Compressed(n))
    => /\ result.kind = "Failed"
       /\ result.error = "UnsupportedCompression"
       /\ NoNetwork(trace)

\* C3: fetch_image with check_local, when the backend holds an uncompressed
\* artifact that matches the alias, resolves to such an artifact without any
\* network access.
C3_LocalHitShortCircuits ==
    (/\ IsFetch
     /\ call.check_local
     /\ Variant(call.name) # "none"
     /\ \E n \in Matching(before, call.name) : ~Compressed(n))
    => /\ result.kind = "Resolved"
       /\ \E n \in Matching(before, call.name) :
            ~Compressed(n) /\ result.location \in Locations(n)
       /\ NoNetwork(trace)

\* C4: fetch_image with an alias that begins with "/" lists nothing, reaches
\* no network, returns the alias as the location, and the format is the
\* suffix token: "qcow2" for "/var/images/custom.qcow2".
C4_PathAliasReturnsSuffixFormat ==
    (IsFetch /\ StartsWith(call.name, Slash))
    => /\ trace = <<>>
       /\ store = before
       /\ result.kind = "Resolved"
       /\ result.location = call.name
       /\ result.fmt = <<call.name[Len(call.name)]>>

\* C5: fetch_image selects the strategy of the variant key of the alias:
\* Base for "fedora", Atomic for "fedora-atomic", with or without a version
\* suffix.
C5_StrategyByVariantKey ==
    (IsFetch /\ ~StartsWith(call.name, Slash) /\ Variant(call.name) # "none")
    => result.fetcher = Variant(call.name)

\* C6: fetch_image with an alias that is not a path and whose image type has
\* no registered strategy fails with UnknownAlias, and before failing lists
\* nothing, reaches no network, changes nothing in the backend and uses no
\* other strategy.
C6_UnknownAliasIsHardFailure ==
    (/\ IsFetch
     /\ ~StartsWith(call.name, Slash)
     /\ Variant(call.name) = "none")
    => /\ result.kind = "Failed"
       /\ result.error = "UnknownAlias"
       /\ result.fetcher = "none"
       /\ trace = <<>>
       /\ store = before

\* an unknown alias was given, with check_local, to a backend holding images
C6_Witness ==
    /\ IsFetch
    /\ call.name = <<W("ubuntu"), Dash, D(<<1, 4>>)>>
    /\ call.check_local
    /\ Base10 \in DOMAIN before
    /\ result.error = "UnknownAlias"

\* the events of a fetch of "fedora" that finds nothing in the backend, in
\* order: the scan, the mirror list, the mirror, its releases (the latest is
\* taken), the directory of the release, its images, then in a pool the
\* volume, then the transfer
MissOrder ==
    <<"list", "mirrorlist", "ftp_login", "nlst_root", "cwd", "nlst_images">>
    \o (IF backend = "pool" THEN <<"vol_lookup", "vol_create">> ELSE <<>>)
    \o <<"wget">>

IsPrefix(p, q) == Len(p) <= Len(q) /\ SubSeq(q, 1, Len(p)) = p

\* C7: fetch_image("fedora") with check_local on a backend with no matching
\* artifact does, in this order, the scan, the resolution of the latest
\* release, the listing and selection of the remote image and one transfer,
\* stopping where a step fails; when it resolves, every step was done, there
\* was exactly one transfer, and the location returned is that of the fetched
\* image inside the backend.
C7_MissThenLatestThenTransfer ==
    (/\ IsFetch
     /\ call.name = BaseKey
     /\ call.check_local
     /\ Matching(before, call.name) = {})
    => /\ IsPrefix(trace, MissOrder)
       /\ result.kind = "Resolved" =>
            /\ trace = MissOrder
            /\ Count(trace, "wget") = 1
            /\ result.img.full_name \in DOMAIN store
            /\ store[result.img.full_name].complete
            /\ result.location \in Locations(result.img.full_name)

\* "fedora" was resolved from the mirror into a directory that held no image
C7_Witness ==
    /\ IsFetch
    /\ call.name = BaseKey
    /\ call.check_local
    /\ backend = "dir"
    /\ Matching(before, call.name) = {}
    /\ Notes \in DOMAIN before
    /\ result.kind = "Resolved"
    /\ trace = MissOrder
    /\ result.location = PathJoin(ImgDir, Base10)

\* C8: after a fetch_image failed in the transfer and left an incomplete
\* artifact, a later fetch_image of the same alias with check_local resolves
\* to that artifact only after a transfer that completes it.
C8_PartialArtifactIsNotAHit ==
    (/\ IsFetch
     /\ call.check_local
     /\ call.name = partial.alias
     /\ partial.image \in DOMAIN before
     /\ ~before[partial.image].complete
     /\ result.kind = "Resolved"
     /\ result.location \in Locations(partial.image))
    => /\ Has(trace, "wget")
       /\ store[partial.image].complete

\* the overwrite the latest provisioning call ran with
Overwrite ==
    IF call.op = "provision_disk" THEN FileOverwrite(call.overwrite)
    ELSE VolumeOverwrite(call.overwrite)

\* the lookup of the volume failed with a backend error, so the call ended
\* without learning whether the target exists
LookupFailed ==
    /\ call.op = "make_disk_volume"
    /\ result.error = "BackendError"
    /\ trace = <<"vol_lookup">>

\* C9, as the specification states it: in a sequence of provisioning calls
\* with overwrite false for one target, the creation command runs at most
\* once.
C9_CreationRunsAtMostOnce == runs.made <= 1

\* C9, amended: in a sequence of provisioning calls with overwrite false for
\* one target, the creation command succeeds at most once; it runs on a call
\* only if the target is absent, and a call made while the target exists
\* leaves the artifact as it is, neither deleted nor recreated.
C9_CreationSucceedsAtMostOnce ==
    /\ runs.ok <= 1
    /\ (IsDisk /\ ~Overwrite) =>
         /\ Has(trace, "create") => call.name \notin DOMAIN before
         /\ call.name \in DOMAIN before =>
              /\ store = before
              /\ ~Has(trace, "remove")
              /\ ~Has(trace, "create")

\* the disk was created by one call with overwrite false and left alone by
\* the next
C9_Witness ==
    /\ call.op = "provision_disk"
    /\ ~Overwrite
    /\ ncalls = 2
    /\ runs = [made |-> 1, ok |-> 1]
    /\ call.name \in DOMAIN before
    /\ trace = <<"exists">>
    /\ store = before

C11_NoDeletionWithoutOverwriteFlag ==
    (/\ IsDisk
     /\ call.overwrite # "True"
     /\ call.name \in DOMAIN before)
    => /\ ~Has(trace, "remove")
       /\ ~Has(trace, "create")
       /\ store = before

\* the records of the latest find_local_image call that pass its format and
\* version filters, compressed or not
Unfiltered ==
    LET all == ParseListing(call.image_type, call.listing)
    IN {c \in {all[i] : i \in 1..Len(all)} :
          /\ call.fmt # None => c.fmt = call.fmt
          /\ call.version # NoVersion =>
               /\ c.version[1] = call.version[1]
               /\ Len(call.version) > 1 => c.version[2] = call.version[2]}

\* C12: find_local_image with compression false never returns a compressed
\* record, whatever the listing, the format and the version; when every
\* record that passes the other filters is compressed it returns None.
C12_SelectorNeverReturnsCompressed ==
    (IsSelect /\ ~call.compression)
    => /\ result.img.compression = None
       /\ (\A c \in Unfiltered : c.compression # None) => result.img = NoImage
       /\ (\E c \in Unfiltered : c.compression = None) =>
            result.img \in Unfiltered

\* the only record that passed the other filters was compressed, and None
\* was returned
C12_Witness ==
    /\ IsSelect
    /\ ~call.compression
    /\ Unfiltered = {ImageInfo(Base10Xz)}
    /\ result.img = NoImage

\* C13: when the creation command of a provisioning call exits with a
\* non-zero status, the call fails with DiskCreationFailed and the failure
\* carries what the command wrote to its standard error.
C13_CreationFailureCarriesDiagnostic ==
    (/\ call.op = "provision_disk"
     /\ Has(trace, "create")
     /\ call.stderr # None)
    => /\ result.kind = "Failed"
       /\ result.error = "DiskCreationFailed"
       /\ result.diag = call.stderr

IsMirror == call.op = "_get_mirror"

\* the lines of the latest mirror list whose scheme is the protocol asked for
SchemeLines ==
    {i \in 1..Len(call.listing) :
        /\ Len(call.listing[i]) > 0
        /\ <<call.listing[i][1]>> = call.name}

IsVariantName(variant, n) ==
    /\ n \in ImageNames
    /\ n[5] = W(variant)

\* the places of the latest remote listing that hold an image of the
\* fetcher used, in the format get_image asks for
FormatHits ==
    {i \in 1..Len(call.listing) :
        /\ IsVariantName(result.fetcher, call.listing[i])
        /\ call.listing[i][13] = W("qcow2")}

\* C15: when fetch_image has listed the release directory, the image
\* get_image selected is the first of the listing, in listing order, in the
\* format asked for; when the listing has none, the invocation fails with
\* ImageNotFound and transfers nothing.
C15_FirstRemoteImageOfTheFormat ==
    (IsFetch /\ Has(trace, "nlst_images"))
    => IF FormatHits = {}
       THEN /\ result.kind = "Failed"
            /\ result.error = "ImageNotFound"
            /\ ~Has(trace, "wget")
            /\ ~Has(trace, "vol_create")
            /\ store = before
       ELSE \E i \in FormatHits :
                /\ \A j \in FormatHits : i <= j
                /\ result.img.full_name = call.listing[i]

\* the later compose stood first in the listing and was selected
C15_Witness ==
    /\ IsFetch
    /\ call.listing = <<Base10New, Base10>>
    /\ result.kind = "Resolved"
    /\ result.img.full_name = Base10New

\* the volume the latest call looked up in the pool
LookupTarget == IF IsFetch THEN result.img.full_name ELSE call.name

\* the place of the lookup in the trace
LookupAt == CHOOSE i \in 1..Len(trace) : trace[i] = "vol_lookup"

\* C16: a lookup of a volume in the pool that fails with "no such volume" is
\* followed by the creation of the volume; one that fails with any other
\* error ends the call with that error, and nothing is deleted or created in
\* the pool after it.
C16_LookupErrorsAreTold ==
    Has(trace, "vol_lookup") =>
        IF call.lookup_err
        THEN /\ result.kind = "Failed"
             /\ result.error = "BackendError"
             /\ Len(trace) = LookupAt
             /\ store = before
        ELSE IF LookupTarget \notin DOMAIN before
        THEN /\ Len(trace) > LookupAt
             /\ trace[LookupAt + 1] \in {"vol_create", "create"}
        ELSE ~Has(trace, "vol_create")

\* the lookup of an existing volume failed with a backend error in a call
\* that would have deleted the volume
C16_Witness ==
    /\ call.op = "make_disk_volume"
    /\ call.lookup_err
    /\ Overwrite
    /\ call.name \in DOMAIN before
    /\ result.error = "BackendError"
    /\ store = before

\* the latest fetch_image ended at the local cache scan, on a hit
LocalHit == IsFetch /\ call.check_local /\ trace = <<"list">>

\* C17: a fetch_image of an alias that is not a path which resolves after a
\* cache miss, or with the cache check suppressed, has transferred the
\* selected image into the backend during the invocation, in a directory and
\* in a pool, also when the pool already held a volume of that name.
C17_ResolvedAfterMissHasTransferred ==
    (/\ IsFetch
     /\ ~StartsWith(call.name, Slash)
     /\ result.kind = "Resolved"
     /\ ~LocalHit)
    => /\ Has(trace, "wget")
       /\ result.img.full_name \in DOMAIN store
       /\ store[result.img.full_name].complete

\* the events that create or write an artifact of the backend
WriteEvents == {"vol_create", "wget"}

\* the artifacts that the latest call created, removed or changed
Changed ==
    {n \in DOMAIN store \cup DOMAIN before :
        \/ n \notin DOMAIN store
        \/ n \notin DOMAIN before
        \/ store[n] # before[n]}

\* C18: in fetch_image the parsing of the alias, the selection of the
\* strategy and the scan of the local cache change no artifact and reach no
\* network; an artifact is created or written only in the transfer step,
\* after the remote image was selected on a miss or a suppressed check, and
\* it is the artifact of that image.
C18_OnlyTheTransferStepWrites ==
    IsFetch =>
        /\ (\/ StartsWith(call.name, Slash)
            \/ result.fetcher = "none"
            \/ LocalHit)
           => (store = before /\ NoNetwork(trace))
        /\ \A i \in 1..Len(trace) :
             /\ trace[i] = "list" => i = 1
             /\ trace[i] \in WriteEvents =>
                  \E j \in 1..(i - 1) : trace[j] = "nlst_images"
        /\ Changed # {} =>
             /\ Changed = {result.img.full_name}
             /\ \E i \in 1..Len(trace) : trace[i] \in WriteEvents
             /\ DOMAIN before \subseteq DOMAIN store

\* a scan that missed was followed by the remote selection and a transfer
\* that wrote the image into the pool
C18_Witness ==
    /\ IsFetch
    /\ call.check_local
    /\ backend = "pool"
    /\ Notes \in DOMAIN before
    /\ trace[1] = "list"
    /\ Has(trace, "wget")
    /\ Changed = {Base10}

\* the name of the image get_image selects from the latest remote listing
FirstHit ==
    call.listing[CHOOSE i \in FormatHits : \A j \in FormatHits : i <= j]

\* name n ends in a compression suffix
HasCompressionSuffix(n) == Len(n) = 15

\* C19: when the image selected from the remote listing is compressed,
\* fetch_image fails with UnsupportedCompression before a transfer starts
\* and before an artifact is created in the backend.
C19_RemoteCompressedIsRefused ==
    (/\ IsFetch
     /\ Has(trace, "nlst_images")
     /\ FormatHits # {}
     /\ HasCompressionSuffix(FirstHit))
    => /\ result.kind = "Failed"
       /\ result.error = "UnsupportedCompression"
       /\ \A i \in 1..Len(trace) :
            trace[i] \notin WriteEvents \cup {"vol_lookup"}
       /\ store = before

\* the compressed image stood before the plain one in the remote listing and
\* the invocation was refused
C19_Witness ==
    /\ IsFetch
    /\ backend = "pool"
    /\ call.listing = <<Base10Xz, Base10>>
    /\ result.error = "UnsupportedCompression"
    /\ result.img.full_name = Base10Xz

IsListing == call.op \in {"find_local_images", "get_cloud_images"}

\* the names of the latest listing written in the grammar of the fetcher, in
\* listing order
NamesOfTheVariant ==
    LET Keep(n) == IsVariantName(call.image_type, n)
    IN SelectSeq(call.listing, Keep)

\* the names of the records the latest listing call yielded
ListedNames == [i \in 1..Len(result.files) |-> result.files[i].full_name]

\* C20: the listing of a fetcher, of the backend or of the remote release
\* directory, yields a record for exactly the names written in the grammar
\* of its variant: no Base image in the Atomic listing, no Atomic image in
\* the Base listing, and the names that match no grammar left out without an
\* error.
C20_ListingsAreVariantSpecific ==
    IsListing =>
        /\ call.op = "find_local_images" => result.kind = "Returned"
        /\ Has(trace, "nlst_images") => result.kind = "Returned"
        /\ result.kind = "Returned" => ListedNames = NamesOfTheVariant
        /\ \A i \in 1..Len(result.files) :
             /\ result.files[i].full_name[5] = W(call.image_type)
             /\ result.files[i].full_name # Notes

\* a directory holding an Atomic image, a file of no grammar and a Base
\* image was listed by the Base fetcher
C20_Witness ==
    /\ call.op = "find_local_images"
    /\ call.image_type = "Base"
    /\ call.listing = <<Atomic10, Notes, Base10>>
    /\ ListedNames = <<Base10>>

\* the names of the latest listing, in the grammar of the fetcher, whose
\* release and compose date are those of the version asked for
HintedNames ==
    {n \in {call.listing[i] : i \in 1..Len(call.listing)} :
        /\ IsVariantName(call.image_type, n)
        /\ <<n[7]>> = call.version[1]
        /\ Len(call.version) > 1 => <<n[9]>> = call.version[2]}

\* C21: find_local_image given a version returns only a record of that
\* release, and of that compose date when the version carries one; when no
\* artifact of the listing has them it returns None, other releases being
\* present or not.
C21_SelectorKeepsToTheHint ==
    (IsSelect /\ call.version # NoVersion)
    => /\ result.img # NoImage =>
            /\ result.img.version[1] = call.version[1]
            /\ Len(call.version) > 1 =>
                 result.img.version[2] = call.version[2]
            /\ result.img.full_name \in HintedNames
       /\ HintedNames = {} => result.img = NoImage

\* release 10 of 1 November was asked for of a directory holding release 9
\* and release 10 of 30 October, and None was returned
C21_Witness ==
    /\ IsSelect
    /\ call.image_type = "Base"
    /\ call.version = <<(<<D(<<1, 0>>)>>), (<<D(Compose1101)>>)>>
    /\ DOMAIN store = {Base9, Base10}
    /\ result.img = NoImage

IsLatest == call.op = "_get_latest_release"

\* the names of the latest root listing that consist of digits
DigitNames ==
    {n \in {call.listing[i] : i \in 1..Len(call.listing)} :
        Len(n) = 1 /\ n[1].t = "d"}

\* a < b for two numbers written in digits without leading zeros: the shorter
\* is the smaller, and of two of one length the first differing digit decides
NumberLess(a, b) ==
    \/ Len(a[1].d) < Len(b[1].d)
    \/ Len(a[1].d) = Len(b[1].d) /\ DigitsLess(a[1].d, b[1].d)

\* C22: _get_latest_release returns the number of a name of the root listing
\* that consists of digits, no such name of the listing being numerically
\* greater; every other name is ignored, and among 9 and 10 it returns 10.
C22_LatestIsTheGreatestNumber ==
    IsLatest
    => /\ DigitNames = {} <=> result.kind = "Failed"
       /\ result.kind = "Returned" =>
            /\ result.location \in DigitNames
            /\ \A n \in DigitNames : ~NumberLess(result.location, n)

\* the root listing held 9 and 10 and 10 was returned
C22_Witness ==
    /\ IsLatest
    /\ call.listing = <<(<<D(<<9>>)>>), (<<D(<<1, 0>>)>>)>>
    /\ result.location = <<D(<<1, 0>>)>>

\* C23: what find_local_image returns is the same for every order in which
\* the backend may list the artifacts it holds, the format, version and
\* compression arguments being the same.
C23_SelectorIgnoresListingOrder ==
    IsSelect
    => \A other \in Listings(store) :
          find_local_image(call.image_type, other, call.version, call.fmt,
                           call.compression) = result.img

\* C24: a fetch_image of an alias that names a release and a compose date
\* which resolves past the cache, the cache having missed, has selected and
\* transferred an image of that release and that compose date.
C24_RemoteImageHasTheHintedCompose ==
    (/\ IsFetch
     /\ Variant(call.name) # "none"
     /\ Len(Hint(call.name)) = 2
     /\ call.check_local
     /\ ~LocalHit
     /\ result.kind = "Resolved")
    => result.img.version = Hint(call.name)

\* C25: a provisioning call with overwrite on an existing target that has
\* deleted the target and whose creation then failed ends in failure with the
\* target absent from the backend, the artifact deleted not being put back
\* and every other artifact being as before; a target left absent is never
\* reported as created.
C25_FailedOverwriteLeavesTargetAbsent ==
    (/\ IsDisk
     /\ Overwrite
     /\ call.name \in DOMAIN before
     /\ Has(trace, "remove"))
    => /\ result.kind = "Failed" =>
            /\ call.name \notin DOMAIN store
            /\ result.error \in {"DiskCreationFailed", "BackendError"}
            /\ store = Drop(before, call.name)
       /\ call.name \notin DOMAIN store => result.kind = "Failed"

\* provision_disk with overwrite deleted the existing main disk, the creation
\* failed and the disk is gone
C25_Witness ==
    /\ call.op = "provision_disk"
    /\ Overwrite
    /\ call.name \in DOMAIN before
    /\ trace = <<"exists", "remove", "create">>
    /\ result.kind = "Failed"
    /\ call.name \notin DOMAIN store

\* make_disk_volume with overwrite deleted the existing volume, the creation
\* failed and the volume is gone
C25_VolumeCase ==
    /\ call.op = "make_disk_volume"
    /\ Overwrite
    /\ call.name \in DOMAIN before
    /\ trace = <<"vol_lookup", "remove", "create">>
    /\ result.kind = "Failed"
    /\ call.name \notin DOMAIN store

====
